---- MODULE Spec2Model ----
(***************************************************************************)
(* Model of frof/__init__.py: FrofPlan (the canonical job network and its  *)
(* plan_id), LocalFrofExecutor (get_next_jobs, execute) and the status     *)
(* monitor calls made by execute().                                        *)
(*                                                                         *)
(* Graph objects live in a small heap so that "the same object" and "a     *)
(* deep copy" are different things: Plan is FrofPlan.network, Blank is the *)
(* nx.DiGraph() made by LocalFrofExecutor.__init__, Work is the deep copy  *)
(* made by execute(), Snap is the deep copy handed out by as_networkx().   *)
(* Node names are 1..k and the graph's iteration order (insertion order of *)
(* a networkx DiGraph) is the numeric order; edges may point either way.   *)
(***************************************************************************)
EXTENDS Integers, Sequences, FiniteSets, TLC

\* ---------------------------------------------------------------- bounds
MaxNodes == 3
MaxEdges == 2
MaxCap == 2
MaxRuns == 2

\* ------------------------------------------------------ program constants
MAX_PARALLEL == 99999

\* ------------------------------------------------------------ data model
NoGroup == "none"
Groups == {"g", "h"}
\* a node's max_parallel_count: a positive integer, or one of two codes
Absent == -1       \* the attribute is not set on the node
Null == -2         \* the attribute is set to None
Caps == {Absent, Null} \cup (1..MaxCap)

Plan == "plan"
Blank == "blank"
Work == "work"
Snap == "snap"
Objs == {Plan, Blank, Work, Snap}

EmptyGraph == [nodes |-> {}, edges |-> {}, group |-> <<>>, mpc |-> <<>>]

\* The wave counter stops counting at MaxWave; a run that launches jobs has
\* at most one wave per node, so only job-less waves are counted short.
MaxWave == MaxNodes + 1

VARIABLES
    frof,          \* the argument the plan was (or is to be) constructed from
    heap,          \* allocated graph object -> its value
    snap,          \* the object a caller got from as_networkx ("none": none yet)
    cur,           \* LocalFrofExecutor.current_network: the object it points to
    plan_id,       \* FrofPlan.plan_id
    uuids,         \* number of uuid4() values drawn so far
    run_id,        \* execute()'s local run_id (0 before the first call)
    run_ids,       \* the run_id of every execute() call so far, in order
    pc,            \* where execute() is: idle, loop, await, done, failed, error
    wave,          \* index of the current iteration of the while loop
    current_jobs,  \* execute()'s local current_jobs (node names, in order)
    running,       \* jobs of the current wave launched and not yet complete
    failure,       \* the job whose exception left execute() (0: none)
    launched,      \* env_vars handed to job.run() in this execute() call
    status,        \* what the status monitor was last told
    group_counts   \* the dict of get_next_jobs() as its last call left it

vars == <<frof, heap, snap, cur, plan_id, uuids, run_id, run_ids, pc, wave, current_jobs,
          running, failure, launched, status, group_counts>>

\* ------------------------------------------------------- graph operations
RECURSIVE NodeOrder(_)
NodeOrder(S) ==
    IF S = {} THEN <<>>
    ELSE LET m == CHOOSE x \in S : \A y \in S : x <= y
         IN  <<m>> \o NodeOrder(S \ {m})

\* (not the code) every node counts as ready
in_degreeZero(g, n) == 0

in_degree(g, n) == Cardinality({e \in g.edges : e[2] = n})

\* (not the code) the node goes, its edges stay
remove_nodeKeepEdges(g, n) == [g EXCEPT !.nodes = @ \ {n}]

remove_node(g, n) ==
    [g EXCEPT !.nodes = @ \ {n},
              !.edges = {e \in @ : e[1] # n /\ e[2] # n}]

\* (not the code) the jobs' nodes stay in the network
remove_nodesNone(g, js) == g

RECURSIVE remove_nodes(_, _)
remove_nodes(g, js) ==
    IF js = <<>> THEN g ELSE remove_nodes(remove_node(g, Head(js)), Tail(js))

\* (not the code) a copy of the nodes and their attributes only
deepcopyNodes(g) == [g EXCEPT !.edges = {}]

deepcopy(g) == g

\* (not the code) no copy is made: the same object is handed on
CopyIntoSame(src, fresh) == src

\* Where a deep copy of the object src is put: a new object, never src.
CopyInto(src, fresh) == fresh

\* (not the code) every draw yields the same value
uuid4Same(n) == 1

\* uuid.uuid4(): the value drawn after n earlier draws differs from all of them.
uuid4(n) == n + 1

\* ---------------------------------------------------------- get_next_jobs
\* (not the code) every node of the network is a candidate
ReadyJobsAll(g) == NodeOrder(g.nodes)

\* jobs = [... if in_degree(i) == 0], in the graph's iteration order
ReadyJobs(g) == SelectSeq(NodeOrder(g.nodes), LAMBDA n : in_degree(g, n) = 0)

\* job.get("parallelism_group", None) is truthy
HasGroup(g, n) == g.group[n] # NoGroup

\* int(job.get("max_parallel_count", MAX_PARALLEL)) raises TypeError on None
MpcRaises(g, n) == g.mpc[n] = Null

MpcOf(g, n) == IF g.mpc[n] = Absent THEN MAX_PARALLEL ELSE g.mpc[n]

\* (not the code) no admission test
AdmitsAlways(count, mpc) == TRUE

\* the admission test, made after the group's count was incremented
Admits(count, mpc) == count < mpc

RECURSIVE AdmitLoop(_, _, _, _)
AdmitLoop(g, jobs, parallelism_groups, result_jobs) ==
    IF jobs = <<>>
    THEN [raised |-> FALSE, jobs |-> result_jobs, counts |-> parallelism_groups]
    ELSE LET i == Head(jobs)
         IN  IF HasGroup(g, i)
             THEN IF MpcRaises(g, i)
                  THEN [raised |-> TRUE, jobs |-> <<>>,
                        counts |-> parallelism_groups]
                  ELSE LET grp == g.group[i]
                           counts == [parallelism_groups EXCEPT ![grp] = @ + 1]
                       IN  IF Admits(counts[grp], MpcOf(g, i))
                           THEN AdmitLoop(g, Tail(jobs), counts, Append(result_jobs, i))
                           ELSE AdmitLoop(g, Tail(jobs), counts, result_jobs)
             ELSE AdmitLoop(g, Tail(jobs), parallelism_groups, Append(result_jobs, i))

NoCounts == [x \in Groups |-> 0]

\* (not the code) the dict of the call before is counted on
CountsAtCallKept(old) == old

\* parallelism_groups = {}: every call counts in a new dict, whatever the
\* call before left in its own
CountsAtCall(old) == NoCounts

get_next_jobs(g) ==
    AdmitLoop(g, ReadyJobs(g), CountsAtCall(group_counts), <<>>)

\* ------------------------------------------------------------------- Init
\* A node without a group never has its max_parallel_count read: such nodes
\* are taken with the attribute absent. Group names are interchangeable: the
\* first node that has a group is taken in group "g".
PlanOK(g) ==
    /\ \A n \in g.nodes : g.group[n] = NoGroup => g.mpc[n] = Absent
    /\ \A n \in g.nodes :
          g.group[n] = "h" => \E m \in g.nodes : m < n /\ g.group[m] = "g"

Init ==
    /\ \E k \in 0..MaxNodes :
         \E E \in SUBSET ((1..k) \X (1..k)) :
           \E gr \in [1..k -> Groups \cup {NoGroup}] :
             \E mp \in [1..k -> Caps] :
               LET g == [nodes |-> 1..k, edges |-> E, group |-> gr, mpc |-> mp]
               IN  /\ Cardinality(E) <= MaxEdges
                   /\ PlanOK(g)
                   /\ frof = [kind |-> "graph", doc |-> g]
                   /\ heap = (Plan :> g) @@ (Blank :> EmptyGraph)
    /\ snap = "none"
    /\ cur = Blank
    /\ plan_id = uuid4(0)
    /\ uuids = 1
    /\ run_id = 0
    /\ run_ids = <<>>
    /\ pc = "idle"
    /\ wave = 0
    /\ current_jobs = <<>>
    /\ running = {}
    /\ failure = 0
    /\ launched = {}
    /\ status = [total |-> -1, ready |-> -1, remaining |-> -1, emits |-> 0]
    /\ group_counts = NoCounts

\* ---------------------------------------------------------------- actions
Resting == pc \in {"idle", "done", "failed", "error"}

Bump(n) == IF n < MaxWave THEN n + 1 ELSE n

\* OneLineStatusMonitor.launch_status(): the node count of get_network()
launch_status(g) ==
    [total |-> Cardinality(g.nodes), ready |-> -1, remaining |-> -1, emits |-> 0]

\* (not the code) emit_status() does nothing
emit_statusSilent(st, g) == st

\* OneLineStatusMonitor.emit_status() on the working network g: emits counts
\* the calls; the call of get_next_jobs() in it may raise, and then nothing
\* is reported
emit_status(st, g) ==
    LET r == get_next_jobs(g)
    IN  IF r.raised
        THEN [st EXCEPT !.emits = Bump(@)]
        ELSE [st EXCEPT !.ready = Len(r.jobs),
                        !.remaining = Cardinality(g.nodes),
                        !.emits = Bump(@)]

\* execute(), lines 295-297: run_id, the working copy, launch_status()
Execute ==
    /\ Resting
    /\ snap = "none"
    /\ Len(run_ids) < MaxRuns
    /\ LET o == CopyInto(Plan, Work)
           h == (o :> deepcopy(heap[Plan])) @@ heap
       IN  /\ heap' = h
           /\ cur' = o
           /\ status' = launch_status(h[Plan])
    /\ run_id' = uuid4(uuids)
    /\ uuids' = uuids + 1
    /\ run_ids' = Append(run_ids, uuid4(uuids))
    /\ pc' = "loop"
    /\ wave' = 0
    /\ current_jobs' = <<>>
    /\ running' = {}
    /\ failure' = 0
    /\ launched' = {}
    /\ group_counts' = NoCounts     \* no call's dict is left by now
    /\ UNCHANGED <<frof, snap, plan_id>>

\* (not the code) the loop also ends when no job can be launched
FinishWhenStuck ==
    /\ pc = "loop"
    /\ \/ heap[cur].nodes = {}
       \/ (~get_next_jobs(heap[cur]).raised /\ get_next_jobs(heap[cur]).jobs = <<>>)
    /\ pc' = "done"
    /\ UNCHANGED <<group_counts, frof, failure, heap, snap, cur, plan_id, uuids, run_id, run_ids,
                   wave, current_jobs, running, launched, status>>

\* while len(self.current_network): false -> execute() returns
Finish ==
    /\ pc = "loop"
    /\ heap[cur].nodes = {}
    /\ pc' = "done"
    /\ UNCHANGED <<group_counts, frof, failure, heap, snap, cur, plan_id, uuids, run_id, run_ids, wave,
                   current_jobs, running, launched, status>>

EnvVars(jobs, k) ==
    [FROF_BATCH_ITER |-> k - 1, FROF_JOB_NAME |-> jobs[k],
     FROF_RUN_ID |-> run_id, FROF_PLAN_ID |-> plan_id, wave |-> wave]

\* lines 299-313: the wave is computed and every job of it is started
Launch ==
    /\ pc = "loop"
    /\ heap[cur].nodes # {}
    /\ LET r == get_next_jobs(heap[cur])
       IN  /\ ~r.raised
           /\ current_jobs' = r.jobs
           /\ running' = {r.jobs[k] : k \in 1..Len(r.jobs)}
           /\ launched' = launched \cup {EnvVars(r.jobs, k) : k \in 1..Len(r.jobs)}
           /\ group_counts' = r.counts
    /\ pc' = "await"
    /\ UNCHANGED <<frof, failure, heap, snap, cur, plan_id, uuids, run_id, run_ids, wave, status>>

\* line 299 raises (TypeError from int(None)): execute() is left by it
LaunchRaises ==
    /\ pc = "loop"
    /\ heap[cur].nodes # {}
    /\ get_next_jobs(heap[cur]).raised
    /\ group_counts' = get_next_jobs(heap[cur]).counts
    /\ pc' = "error"
    /\ UNCHANGED <<frof, failure, heap, snap, cur, plan_id, uuids, run_id, run_ids, wave,
                   current_jobs, running, launched, status>>

\* a job's run() completes
JobDone(n) ==
    /\ pc = "await"
    /\ n \in running
    /\ running' = running \ {n}
    /\ UNCHANGED <<group_counts, frof, failure, heap, snap, cur, plan_id, uuids, run_id, run_ids, pc, wave,
                   current_jobs, launched, status>>

\* (not the code) the exception leaves execute() after the nodes of the jobs
\* of the wave that did complete were removed
JobFailPrune(n) ==
    /\ pc = "await"
    /\ n \in running
    /\ running' = running \ {n}
    /\ failure' = n
    /\ pc' = "failed"
    /\ heap' = [heap EXCEPT ![cur] =
                  remove_nodes(@, SelectSeq(current_jobs, LAMBDA j : j \notin running))]
    /\ UNCHANGED <<group_counts, frof, snap, cur, plan_id, uuids, run_id, run_ids, wave,
                   current_jobs, launched, status>>

\* a job's run() raises: gather() hands the exception to run_until_complete
\* at once, the other jobs of the wave are not waited for
JobFail(n) ==
    /\ pc = "await"
    /\ n \in running
    /\ running' = running \ {n}
    /\ failure' = n
    /\ pc' = "failed"
    /\ UNCHANGED <<group_counts, frof, heap, snap, cur, plan_id, uuids, run_id, run_ids, wave,
                   current_jobs, launched, status>>

\* (not the code) the nodes are removed and the monitor told without waiting
\* for the wave's jobs
BarrierEarly ==
    /\ pc = "await"
    /\ LET g == remove_nodes(heap[cur], current_jobs)
           r == get_next_jobs(g)
       IN  /\ heap' = [heap EXCEPT ![cur] = g]
           /\ ~r.raised
           /\ pc' = "loop"
           /\ status' = [status EXCEPT !.ready = Len(r.jobs),
                                       !.remaining = Cardinality(g.nodes),
                                       !.emits = Bump(@)]
    /\ wave' = Bump(wave)
    /\ running' = {}
    /\ UNCHANGED <<group_counts, frof, failure, snap, cur, plan_id, uuids, run_id, run_ids,
                   current_jobs, launched>>

\* lines 314-317: all jobs of the wave are complete; their nodes are removed
\* and emit_status() runs (it calls get_next_jobs() itself, which may raise)
Barrier ==
    /\ pc = "await"
    /\ running = {}
    /\ LET g == remove_nodes(heap[cur], current_jobs)
       IN  /\ heap' = [heap EXCEPT ![cur] = g]
           /\ status' = emit_status(status, g)
           /\ group_counts' = get_next_jobs(g).counts
           /\ pc' = IF get_next_jobs(g).raised THEN "error" ELSE "loop"
    /\ wave' = Bump(wave)
    /\ UNCHANGED <<frof, failure, snap, cur, plan_id, uuids, run_id, run_ids, current_jobs,
                   running, launched>>

\* FrofPlan.as_networkx(), called between execute() calls
AsNetworkx ==
    /\ Resting
    /\ snap = "none"
    /\ LET o == CopyInto(Plan, Snap)
       IN  /\ heap' = (o :> deepcopy(heap[Plan])) @@ heap
           /\ snap' = o
    /\ UNCHANGED <<group_counts, frof, failure, cur, plan_id, uuids, run_id, run_ids, pc, wave, current_jobs,
                   running, launched, status>>

\* the caller mutates the graph as_networkx() gave it: it removes a node
\* (with its edges) from a graph it has not changed yet
MutateSnapshot(n) ==
    /\ Resting
    /\ snap # "none"
    /\ n \in heap[snap].nodes
    /\ heap[snap].nodes = heap[Plan].nodes
    /\ heap' = [heap EXCEPT ![snap] = remove_node(@, n)]
    /\ UNCHANGED <<group_counts, frof, failure, snap, cur, plan_id, uuids, run_id, run_ids, pc, wave,
                   current_jobs, running, launched, status>>

\* the caller lets go of the graph as_networkx() gave it
DropSnapshot ==
    /\ snap # "none"
    /\ snap' = "none"
    /\ heap' = [o \in DOMAIN heap \ ({snap} \ {Plan}) |-> heap[o]]
    /\ UNCHANGED <<group_counts, frof, failure, cur, plan_id, uuids, run_id, run_ids, pc, wave, current_jobs,
                   running, launched, status>>

Next ==
    \/ Execute
    \/ Finish
    \/ Launch
    \/ LaunchRaises
    \/ \E n \in 1..MaxNodes : JobDone(n)
    \/ \E n \in 1..MaxNodes : JobFail(n)
    \/ Barrier
    \/ AsNetworkx
    \/ \E n \in 1..MaxNodes : MutateSnapshot(n)
    \/ DropSnapshot

Spec == Init /\ [][Next]_vars

\* The runs in which every job succeeds and execute(), once called, keeps
\* running: the interpreter goes on to the next statement and every job's
\* run() completes.
ExecuteStep ==
    \/ Finish
    \/ Launch
    \/ LaunchRaises
    \/ \E n \in 1..MaxNodes : JobDone(n)
    \/ Barrier

NextOK ==
    \/ Execute
    \/ ExecuteStep

FairSpec == Init /\ [][NextOK]_vars /\ WF_vars(ExecuteStep)

\* ------------------------------------------------------------ construction
\* LocalFrofExecutor(fp) with fp a graph or a string: FrofPlan(fp) is built
\* first. frof.kind says what fp is:
\*   "graph"  a DiGraph (frof.doc);
\*   "path"   a string without a newline naming a readable file, whose text
\*            describes frof.doc;
\*   "line"   a string without a newline naming no file, describing frof.doc;
\*   "text"   a string with a newline in it, describing frof.doc.
Kinds == {"graph", "path", "line", "text"}

\* FrofParser().parse(text): the graph the text describes (the parser is not
\* part of this file; a text is represented by the graph it describes)
FrofParser_parse(doc) == doc

NoHeap == [o \in {} |-> EmptyGraph]

CtorInit ==
    /\ \E k \in 0..MaxNodes :
         \E E \in SUBSET ((1..k) \X (1..k)) :
           \E gr \in [1..k -> Groups \cup {NoGroup}] :
             \E mp \in [1..k -> Caps] :
               \E kind \in Kinds :
                 LET g == [nodes |-> 1..k, edges |-> E, group |-> gr, mpc |-> mp]
                 IN  /\ Cardinality(E) <= MaxEdges
                     /\ PlanOK(g)
                     /\ frof = [kind |-> kind, doc |-> g]
    /\ heap = NoHeap
    /\ snap = "none"
    /\ cur = "none"
    /\ plan_id = 0
    /\ uuids = 0
    /\ run_id = 0
    /\ run_ids = <<>>
    /\ pc = "new"
    /\ wave = 0
    /\ current_jobs = <<>>
    /\ running = {}
    /\ failure = 0
    /\ launched = {}
    /\ status = [total |-> -1, ready |-> -1, remaining |-> -1, emits |-> 0]
    /\ group_counts = NoCounts

\* what FrofPlan.__init__ leaves in the heap (lines 142-150)
PlanHeap ==
    \/ /\ frof.kind = "graph"                       \* line 150
       /\ heap' = (Plan :> frof.doc) @@ (Blank :> EmptyGraph)
    \/ /\ frof.kind = "path"                        \* lines 145-146
       /\ heap' = (Plan :> FrofParser_parse(frof.doc)) @@ (Blank :> EmptyGraph)
    \/ /\ frof.kind = "line"                        \* lines 147-148
       /\ heap' = (Plan :> FrofParser_parse(frof.doc)) @@ (Blank :> EmptyGraph)
    \/ /\ frof.kind = "text"                        \* line 143 is false: no
       /\ heap' = (Blank :> EmptyGraph)             \* branch assigns network

\* LocalFrofExecutor.__init__ (lines 213-218) and the FrofPlan.__init__ it calls
Construct ==
    /\ pc = "new"
    /\ plan_id' = uuid4(uuids)
    /\ uuids' = uuids + 1
    /\ PlanHeap
    /\ cur' = Blank
    /\ pc' = "idle"
    /\ UNCHANGED <<group_counts, frof, snap, run_id, run_ids, wave, current_jobs, running,
                   failure, launched, status>>

CtorNext == Construct

CtorSpec == CtorInit /\ [][CtorNext]_vars

\* ------------------------------------------------- vocabulary of the claims
PlanG == heap[Plan]
CurG == heap[cur]

Preds(g, v) == {u \in g.nodes : <<u, v>> \in g.edges}

RECURSIVE Path(_, _, _, _)
Path(g, a, b, k) ==
    /\ k > 0
    /\ \/ <<a, b>> \in g.edges
       \/ \E c \in g.nodes : <<a, c>> \in g.edges /\ Path(g, c, b, k - 1)

Acyclic(g) == \A n \in g.nodes : ~Path(g, n, n, Cardinality(g.nodes))

SetMax(S) == CHOOSE x \in S : \A y \in S : y <= x

\* length of the longest chain of predecessors ending in n (acyclic g only)
RECURSIVE Depth(_, _)
Depth(g, n) ==
    IF Preds(g, n) = {} THEN 0
    ELSE 1 + SetMax({Depth(g, u) : u \in Preds(g, n)})

Range(js) == {js[i] : i \in 1..Len(js)}

GroupNodes(g, grp) == {n \in g.nodes : g.group[n] = grp}

\* every node of the group carries max_parallel_count = k
UniformCap(g, grp, k) ==
    /\ GroupNodes(g, grp) # {}
    /\ \A n \in GroupNodes(g, grp) : g.mpc[n] = k

\* every grouped node carries an integer max_parallel_count >= 1, or none
CapsOK(g) == \A n \in g.nodes : g.mpc[n] = Absent \/ g.mpc[n] >= 1

ReadyIn(g, grp) == SelectSeq(ReadyJobs(g), LAMBDA n : g.group[n] = grp)

Min(a, b) == IF a <= b THEN a ELSE b

\* ------------------------------------------------------------------ claims

\* C1: for an acyclic plan whose grouped nodes carry max_parallel_count >= 1,
\* with every job succeeding, execute() terminates with the working network
\* empty.
C1_Terminates ==
    (pc = "loop" /\ Acyclic(PlanG) /\ CapsOK(PlanG))
        ~> (pc = "done" /\ CurG.nodes = {})

\* C2: every job of a wave has all its graph predecessors launched in an
\* earlier wave, and when it is launched they are gone from the working
\* network.
C2_PredecessorsFirst ==
    /\ \A l \in launched : \A u \in Preds(PlanG, l.FROF_JOB_NAME) :
          \E k \in launched : k.FROF_JOB_NAME = u /\ k.wave < l.wave
    /\ pc = "await" =>
          \A v \in Range(current_jobs) : \A u \in Preds(PlanG, v) :
             u \notin CurG.nodes

C2_Witness ==
    /\ pc = "await"
    /\ \E v \in running : Preds(PlanG, v) # {}

\* C3: of a group whose nodes all carry max_parallel_count = k, no result of
\* get_next_jobs() and no wave of execute() holds more than k nodes.
C3_GroupCap ==
    \A grp \in Groups : \A k \in 1..MaxCap :
        UniformCap(PlanG, grp, k) =>
            /\ Cardinality(Range(get_next_jobs(CurG).jobs)
                                \cap GroupNodes(PlanG, grp)) <= k
            /\ Cardinality(Range(current_jobs) \cap GroupNodes(PlanG, grp)) <= k

C3_Witness ==
    /\ pc = "await"
    /\ \E grp \in Groups : \E k \in 1..MaxCap :
          /\ UniformCap(PlanG, grp, k)
          /\ Len(ReadyIn(CurG, grp)) > k
          /\ Range(current_jobs) \cap GroupNodes(PlanG, grp) # {}

\* C4: when m nodes of one group, all with max_parallel_count = k, are ready,
\* get_next_jobs() returns exactly the first min(m, k) of them.
C4_FirstKAdmitted ==
    LET r == get_next_jobs(CurG)
    IN  ~r.raised =>
          \A grp \in Groups : \A k \in 1..MaxCap :
             LET rdy == ReadyIn(CurG, grp)
             IN  (rdy # <<>> /\ \A n \in Range(rdy) : CurG.mpc[n] = k) =>
                    SelectSeq(r.jobs, LAMBDA n : CurG.group[n] = grp)
                       = SubSeq(rdy, 1, Min(Len(rdy), k))

\* the plans of C5: n >= 1 nodes, no edges, all in group "g" with cap 1
PlanC5(g) ==
    /\ g.nodes # {}
    /\ g.edges = {}
    /\ \A n \in g.nodes : g.group[n] = "g" /\ g.mpc[n] = 1

\* C5: such a plan runs as n waves of exactly one node each.
C5_OneNodePerWave ==
    PlanC5(PlanG) =>
        /\ pc = "await" => Len(current_jobs) = 1
        /\ pc = "done" => wave = Cardinality(PlanG.nodes)

\* C6: in a plan without groups every wave is the set of all nodes without
\* predecessors in the working network, and (acyclic plan) wave i is the set
\* of the nodes whose longest chain of predecessors has length i.
C6_UngroupedWaves ==
    (\A n \in PlanG.nodes : PlanG.group[n] = NoGroup) =>
        /\ pc = "await" =>
              Range(current_jobs) = {n \in CurG.nodes : Preds(CurG, n) = {}}
        /\ (Acyclic(PlanG) /\ pc = "await") =>
              Range(current_jobs) = {n \in PlanG.nodes : Depth(PlanG, n) = wave}
        /\ Acyclic(PlanG) =>
              \A l \in launched : l.wave = Depth(PlanG, l.FROF_JOB_NAME)

C6_Witness ==
    /\ \A n \in PlanG.nodes : PlanG.group[n] = NoGroup
    /\ Acyclic(PlanG)
    /\ pc = "await"
    /\ wave = 1
    /\ Len(current_jobs) = 2

\* C7: when a job's failure has left execute(), the working network is the
\* plan graph without the nodes of the waves before the failing one (the
\* failing wave's nodes, completed or not, are all there), and nothing of a
\* later wave was launched.
C7_FailureLeavesWave ==
    pc = "failed" =>
        /\ failure \in Range(current_jobs)
        /\ CurG.nodes = PlanG.nodes \
               {l.FROF_JOB_NAME : l \in {x \in launched : x.wave < wave}}
        /\ CurG.edges = {e \in PlanG.edges : e[1] \in CurG.nodes /\ e[2] \in CurG.nodes}
        /\ Range(current_jobs) \subseteq CurG.nodes
        /\ \A l \in launched : l.wave <= wave
        /\ {l.FROF_JOB_NAME : l \in {x \in launched : x.wave = wave}}
              = Range(current_jobs)

C7_Witness ==
    /\ pc = "failed"
    /\ wave = 1
    /\ \E s \in Range(current_jobs) : s # failure /\ s \notin running

\* C8: a grouped node whose max_parallel_count is absent or None has an
\* unbounded cap: get_next_jobs() returns normally and admits it.
C8_NullCapUnbounded ==
    LET r == get_next_jobs(CurG)
    IN  /\ ~r.raised
        /\ \A n \in Range(ReadyJobs(CurG)) :
              (CurG.group[n] # NoGroup /\ CurG.mpc[n] \in {Absent, Null})
                 => n \in Range(r.jobs)

\* C9: no step of execute(), as_networkx() or a caller mutating the graph
\* as_networkx() returned changes the plan's own graph.
C9_PlanNeverMutated == [][heap'[Plan] = heap[Plan]]_vars

C9_Witness ==
    /\ snap # "none"
    /\ heap[snap].nodes # PlanG.nodes
    /\ pc \in {"done", "failed"}
    /\ Len(run_ids) = MaxRuns
    /\ CurG.nodes # PlanG.nodes

\* C10: the run_ids of the execute() calls are pairwise distinct; every job
\* launched in a call got that call's run_id and the id the plan was given
\* at construction.
C10_Identifiers ==
    /\ \A i, j \in 1..Len(run_ids) : i # j => run_ids[i] # run_ids[j]
    /\ run_ids # <<>> => run_id = run_ids[Len(run_ids)]
    /\ plan_id = 1
    /\ \A l \in launched : l.FROF_RUN_ID = run_id /\ l.FROF_PLAN_ID = plan_id

C10_Witness ==
    /\ Len(run_ids) = 2
    /\ \E l, m \in launched : l.wave # m.wave

\* C11: a plan constructed from a string with a newline in it has as its
\* network what the parser makes of that string.
C11_MultilineParsed ==
    (pc = "idle" /\ frof.kind = "text") =>
        /\ Plan \in DOMAIN heap
        /\ heap[Plan] = FrofParser_parse(frof.doc)

\* the jobs in flight were all launched in the current wave
OneWaveInFlight ==
    running \subseteq
        {l.FROF_JOB_NAME : l \in {x \in launched : x.wave = wave}}

\* C12: while a job of the current wave has not completed, no step removes a
\* node, tells the status monitor anything or launches a job; the jobs in
\* flight are those of one wave.
C12_WaveBarrier ==
    [][ /\ (pc = "await" /\ running # {}) =>
              /\ heap'[cur] = heap[cur]
              /\ status' = status
              /\ launched' = launched
        /\ OneWaveInFlight' ]_vars

C12_Witness ==
    /\ pc = "await"
    /\ running # {}
    /\ Range(current_jobs) \ running # {}

\* the nodes of the group of rdy[i] that come before it in rdy and are in js
AdmittedBefore(g, rdy, i, js) ==
    {rdy[j] : j \in {x \in 1..(i - 1) :
                       g.group[rdy[x]] = g.group[rdy[i]] /\ rdy[x] \in Range(js)}}

\* C13: a ready node with a group is admitted iff the number of nodes of its
\* group admitted before it in this call is less than its cap (a rejected
\* node takes no slot).
C13_CountOnlyAdmitted ==
    LET r == get_next_jobs(CurG)
        rdy == ReadyJobs(CurG)
    IN  ~r.raised =>
          \A i \in 1..Len(rdy) :
             HasGroup(CurG, rdy[i]) =>
                (rdy[i] \in Range(r.jobs)
                   <=> Cardinality(AdmittedBefore(CurG, rdy, i, r.jobs))
                          < MpcOf(CurG, rdy[i]))

\* C14: in one execute() call no node is launched in two waves, and when the
\* next wave is computed the launched nodes are gone from the working network.
C14_LaunchedOnce ==
    /\ \A l, m \in launched : l.FROF_JOB_NAME = m.FROF_JOB_NAME => l = m
    /\ pc = "loop" =>
          \A l \in launched : l.FROF_JOB_NAME \notin CurG.nodes

C14_Witness ==
    /\ pc = "loop"
    /\ wave = 2
    /\ Cardinality(launched) = 2
    /\ CurG.nodes # {}

\* C15: in an execute() call the monitor was told the node count of the plan
\* graph before any job was launched; emit_status() was called once for
\* every wave whose nodes were removed, after the removal and before a job
\* of the next wave is launched; for an empty plan it is never called.
C15_MonitorCalls ==
    pc \notin {"idle", "new"} =>
        /\ status.total = Cardinality(PlanG.nodes)
        /\ status.emits = wave
        /\ \A l \in launched : l.wave <= status.emits
        /\ pc = "await" => \A n \in running :
              \E l \in launched : l.FROF_JOB_NAME = n /\ l.wave = status.emits
        /\ (pc \in {"loop", "await", "done", "failed"} /\ wave >= 1) =>
              /\ status.remaining = Cardinality(CurG.nodes)
              /\ status.remaining
                    = Cardinality(PlanG.nodes \
                         {l.FROF_JOB_NAME : l \in {x \in launched : x.wave < wave}})
        /\ PlanG.nodes = {} => status.emits = 0

C15_Witness ==
    /\ pc = "done"
    /\ status.total = 3
    /\ status.emits = 2

\* the graph g cut down to the nodes in S
Restrict(g, S) ==
    [g EXCEPT !.nodes = S,
              !.edges = {e \in @ : e[1] \in S /\ e[2] \in S}]

\* C16: during and after an execute() call the working network is the plan
\* graph cut down to the nodes not launched in a wave that was completed (a
\* full copy at the start of every call); a step of the call only removes
\* nodes and edges.
C16_WorkingNetwork ==
    [][ /\ pc' \notin {"idle", "new"} =>
              heap'[cur'] = Restrict(heap'[Plan], heap'[Plan].nodes \
                  {l.FROF_JOB_NAME : l \in {x \in launched' : x.wave < wave'}})
        /\ pc \in {"loop", "await"} =>
              /\ heap'[cur'].nodes \subseteq heap[cur].nodes
              /\ heap'[cur'].edges \subseteq heap[cur].edges ]_vars

C16_Witness ==
    /\ pc = "loop"
    /\ Len(run_ids) = 2
    /\ wave = 1
    /\ CurG.edges # {}
    /\ CurG.nodes # PlanG.nodes

\* C17: the nodes get_next_jobs() returns are not joined by an edge of the
\* working network, to each other or to themselves.
C17_WaveIndependent ==
    /\ \A a, b \in Range(get_next_jobs(CurG).jobs) : <<a, b>> \notin CurG.edges
    /\ \A a, b \in Range(current_jobs) : <<a, b>> \notin PlanG.edges

C17_Witness ==
    /\ pc = "await"
    /\ Len(current_jobs) = 2
    /\ \E n \in CurG.nodes : <<n, n>> \in CurG.edges

Cyclic(g) == ~Acyclic(g)

\* the nodes on a cycle of g or reachable from one
CycleFed(g) ==
    {n \in g.nodes :
        \E c \in g.nodes :
           /\ Path(g, c, c, Cardinality(g.nodes))
           /\ (c = n \/ Path(g, c, n, Cardinality(g.nodes)))}

\* C18 as claimed, for the plans whose caps are integers or absent (for which
\* get_next_jobs() cannot raise): with a cycle in the plan graph execute()
\* never ends, neither normally nor by an error.
C18_CycleNeverEnds ==
    (Cyclic(PlanG) /\ CapsOK(PlanG)) => pc \notin {"done", "failed", "error"}

\* C18 amended: with a cycle in the plan graph execute() never returns
\* normally (it iterates for ever unless an exception of a job or of
\* get_next_jobs() leaves it), the nodes on a cycle or reachable from one
\* stay in the working network and none of them is ever launched.
C18_CycleNeverDone ==
    (pc \notin {"idle", "new"} /\ Cyclic(PlanG)) =>
        /\ pc # "done"
        /\ CycleFed(PlanG) \subseteq CurG.nodes
        /\ \A l \in launched : l.FROF_JOB_NAME \notin CycleFed(PlanG)

C18_Witness ==
    /\ Cyclic(PlanG)
    /\ pc = "loop"
    /\ wave = MaxWave
    /\ launched # {}
    /\ \E n \in CycleFed(PlanG) : Preds(CurG, n) = {n}

\* C19: for an acyclic plan, a ready count of zero told to the monitor means
\* the working network is empty, and every wave launches at least one job.
C19_ReadyZeroMeansDone ==
    (Acyclic(PlanG) /\ pc \in {"loop", "await", "done", "failed"}) =>
        /\ (status.emits > 0 /\ status.ready = 0) => CurG.nodes = {}
        /\ pc = "await" => current_jobs # <<>>

====
